---- MODULE Spec2Model ----
(***************************************************************************)
(* Evidence lifecycle and trust verification of ChittyAssets.              *)
(*                                                                         *)
(* The module holds several specifications over one set of variables:      *)
(*   Spec        the asset table behind the REST routes (POST/GET/PUT/     *)
(*               DELETE /api/assets), with clients that read and write     *)
(*   SpecSeed    seedDemoData filling the table with demo assets           *)
(*   SpecLedger  ChittyEvidenceLedger.submitEvidence and the ChittyCloud   *)
(*               freeze/mint calls against the chain collaborator          *)
(*   SpecVerify  ChittyEvidenceLedger.verifyEvidence and its compliance    *)
(*               classification                                            *)
(*   SpecTrust   the three trust score computations                        *)
(*   SpecSubmit  ChittyEvidenceLedger.submitEvidence await by await, with  *)
(*               the outcome of the call                                   *)
(*   SpecVerifyFair  SpecVerify with the continuation scheduled fairly     *)
(*   SpecClassify  verifyEvidence while the table holds records            *)
(*   SpecScore   the routes that write a row, with the trust score route   *)
(*   SpecTools   listToolResources and the callers of its array            *)
(*   SpecUuid    generateUUIDv7                                            *)
(*   SpecCore    initializeChittyCore and getChittyServices                *)
(* A specification leaves the variables of the others unchanged.           *)
(***************************************************************************)
EXTENDS Integers, Sequences, FiniteSets, TLC

VARIABLES
    now,        \* the wall clock (new Date(), Date.now()), in days
    assets,     \* the assets table: id -> row, for the ids that have a row
    nextId,     \* the number of ids gen_random_uuid() has handed out
    seen,       \* per client: the row it last fetched and whether it is stale
    lastPut,    \* what the last PUT /api/assets/:id did
    seed,       \* per user: how far its seedDemoData call has come
    frozenAt,   \* chain collaborator: when each chittyId was frozen
    registered, \* ledger collaborator: the chittyIds registered as evidence
    earlyMints, \* the chittyIds minted before their freeze window had elapsed
    anchors,    \* chain collaborator: the transactions answered per chittyId
    verify,     \* the verifyEvidence call: its three checks and what it returned
    trust,      \* the last trust score computation: its inputs and its result
    submission, \* the submitEvidence call in progress: its inputs and how far it is
    tools,      \* the array toolResources and the callers that hold a reference to it
    uuid,       \* the identifier generateUUIDv7 returned last, as groups of hex digits
    core        \* chittyInstance, the core instances and the callers of initializeChittyCore

tableVars == <<assets, nextId>>

clientVars == <<seen, lastPut>>

storeVars == <<tableVars, clientVars>>

seedVars == <<seed>>

ledgerVars == <<frozenAt, registered, earlyMints, anchors>>

verifyVars == <<verify>>

trustVars == <<trust>>

submitVars == <<submission>>

localVars == <<tools, uuid, core>>

vars ==
    <<now, storeVars, seedVars, ledgerVars, verifyVars, trustVars, submitVars, localVars>>

----------------------------------------------------------------------------
(* Values *)

\* SQL NULL / JavaScript undefined for a timestamp column
NullTime == 0 - 1

\* a key that the request body does not carry (timestamp fields)
AbsentTime == 0 - 2

\* SQL NULL / undefined for a text column
Null == "null"

\* a key that the request body does not carry (text fields)
Absent == "absent"

\* a key that the request body does not carry (trustScore, in tenths)
AbsentScore == 0 - 3

\* the largest value of the clock
MaxClock == 1

\* the number of rows the assets table can be given
MaxAssets == 1

\* chitty_chain_status
chittyChainStatusEnum == {"draft", "frozen", "minted", "settled", "disputed"}

\* transaction handles the chain can answer with
TxHashes == {"0xa", "0xb"}

\* authenticated clients of one user
Clients == {"c1", "c2"}

AssetIds == 1..MaxAssets

----------------------------------------------------------------------------
(* The assets table and its routes *)

\* the columns of a new row that the insert does not give
AssetDefaults ==
    [chittyChainStatus |-> "draft", freezeTimestamp |-> NullTime, blockchainHash |-> Null,
     metadata |-> Null, trustScore |-> 0]

\* the bodies a client can send: every key is optional
AssetBodies ==
    [chittyChainStatus : chittyChainStatusEnum \cup {Absent},
     freezeTimestamp : {AbsentTime, NullTime, now},
     blockchainHash : TxHashes \cup {Null, Absent},
     metadata : {Absent, "{edited}"},
     trustScore : {AbsentScore}]

\* SET ...updates: the keys the body carries replace the row's columns
ApplyUpdates(row, updates) ==
    [chittyChainStatus |->
        IF updates.chittyChainStatus = Absent THEN row.chittyChainStatus
        ELSE updates.chittyChainStatus,
     freezeTimestamp |->
        IF updates.freezeTimestamp = AbsentTime THEN row.freezeTimestamp
        ELSE updates.freezeTimestamp,
     blockchainHash |->
        IF updates.blockchainHash = Absent THEN row.blockchainHash
        ELSE updates.blockchainHash,
     metadata |->
        IF updates.metadata = Absent THEN row.metadata ELSE updates.metadata,
     trustScore |->
        IF updates.trustScore = AbsentScore THEN row.trustScore ELSE updates.trustScore]

\* created_at / updated_at defaultNow(), and updatedAt: new Date() of an update
Stamped(row) ==
    row @@ [updatedAt |-> now]

NoSnapshot == [id |-> 0, stale |-> FALSE]

\* the log of the last PUT: who sent it, whether the sender's snapshot was stale,
\* whether a row was updated, the chittyChainStatus before, asked for and after
NoPut ==
    [client |-> "none", id |-> 0, stale |-> FALSE, applied |-> FALSE,
     from |-> Null, requested |-> Absent, to |-> Null]

\* every other client that holds a snapshot of the row now holds a stale one
Invalidate(id, writer) ==
    [c \in Clients |->
        IF c # writer /\ seen[c].id = id THEN [seen[c] EXCEPT !.stale = TRUE]
        ELSE seen[c]]

\* POST /api/assets: insertAssetSchema.parse, then storage.createAsset
CreateAsset(c, body) ==
    /\ nextId < MaxAssets
    /\ nextId' = nextId + 1
    /\ assets' = assets @@ ((nextId + 1) :> Stamped(ApplyUpdates(AssetDefaults, body)))
    /\ seen' = [seen EXCEPT ![c] = [id |-> nextId + 1, stale |-> FALSE]]
    /\ UNCHANGED <<now, lastPut, seedVars, ledgerVars, verifyVars, trustVars, submitVars,
                   localVars>>

\* GET /api/assets/:id
GetAsset(c, id) ==
    /\ id \in DOMAIN assets
    /\ seen' = [seen EXCEPT ![c] = [id |-> id, stale |-> FALSE]]
    /\ UNCHANGED <<now, assets, nextId, lastPut, seedVars, ledgerVars, verifyVars, trustVars, submitVars,
                   localVars>>

\* storage.updateAsset: UPDATE assets SET ...updates WHERE id = :id
UpdateAsset(id, updates) ==
    IF id \in DOMAIN assets
    THEN [assets EXCEPT ![id] = Stamped(ApplyUpdates(assets[id], updates))]
    ELSE assets

\* PUT /api/assets/:id
PutAsset(c, id, updates) ==
    /\ id \in 1..nextId
    /\ assets' = UpdateAsset(id, updates)
    /\ lastPut' = [client |-> c, id |-> id,
                   stale |-> seen[c].id = id /\ seen[c].stale,
                   applied |-> id \in DOMAIN assets,
                   from |-> IF id \in DOMAIN assets THEN assets[id].chittyChainStatus
                            ELSE Null,
                   requested |-> updates.chittyChainStatus,
                   to |-> IF id \in DOMAIN assets
                          THEN UpdateAsset(id, updates)[id].chittyChainStatus
                          ELSE Null]
    /\ seen' = [Invalidate(id, c) EXCEPT ![c] =
                    IF id \in DOMAIN assets THEN [id |-> id, stale |-> FALSE]
                    ELSE seen[c]]
    /\ UNCHANGED <<now, nextId, seedVars, ledgerVars, verifyVars, trustVars, submitVars,
                   localVars>>

\* DELETE /api/assets/:id, storage.deleteAsset
DeleteAsset(c, id) ==
    /\ id \in DOMAIN assets
    /\ assets' = [i \in DOMAIN assets \ {id} |-> assets[i]]
    /\ seen' = Invalidate(id, c)
    /\ UNCHANGED <<now, nextId, lastPut, seedVars, ledgerVars, verifyVars, trustVars, submitVars,
                   localVars>>

\* time passes
Tick ==
    /\ now < MaxClock
    /\ now' = now + 1
    /\ UNCHANGED <<storeVars, seedVars, ledgerVars, verifyVars, trustVars, submitVars,
                   localVars>>

----------------------------------------------------------------------------
(* seedDemoData *)

\* the users whose tables are seeded
Users == {"u1", "u2"}

\* the array demoAssets, its fourth element built at time freezeAt
demoAssets(freezeAt) ==
    << [chittyChainStatus |-> "minted", freezeTimestamp |-> NullTime,
        blockchainHash |-> Null, metadata |-> "{seeded}", trustScore |-> 925],
       [chittyChainStatus |-> "settled", freezeTimestamp |-> NullTime,
        blockchainHash |-> Null, metadata |-> "{seeded}", trustScore |-> 968],
       [chittyChainStatus |-> "settled", freezeTimestamp |-> NullTime,
        blockchainHash |-> Null, metadata |-> "{seeded}", trustScore |-> 982],
       [chittyChainStatus |-> "frozen", freezeTimestamp |-> freezeAt,
        blockchainHash |-> Null, metadata |-> "{seeded}", trustScore |-> 947],
       [chittyChainStatus |-> "draft", freezeTimestamp |-> NullTime,
        blockchainHash |-> Null, metadata |-> "{seeded}", trustScore |-> 893] >>

NoSeed == [pc |-> "idle", k |-> 0, freezeAt |-> NullTime]

\* seedDemoData(userId) is called
SeedStart(u) ==
    /\ seed[u].pc = "idle"
    /\ seed' = [seed EXCEPT ![u] = [pc |-> "build", k |-> 0, freezeAt |-> NullTime]]
    /\ UNCHANGED <<now, storeVars, ledgerVars, verifyVars, trustVars, submitVars, localVars>>

\* one await chittyCloudMcp.generateChittyId() of the array literal returns; the
\* fourth element takes freezeTimestamp: new Date() right after its id
SeedGenerateChittyId(u) ==
    /\ seed[u].pc = "build"
    /\ seed' = [seed EXCEPT ![u] =
                    [pc |-> IF seed[u].k + 1 = Len(demoAssets(NullTime))
                            THEN "insert" ELSE "build",
                     k |-> IF seed[u].k + 1 = Len(demoAssets(NullTime))
                           THEN 0 ELSE seed[u].k + 1,
                     freezeAt |-> IF demoAssets(now)[seed[u].k + 1].freezeTimestamp
                                     # NullTime
                                  THEN now ELSE seed[u].freezeAt]]
    /\ UNCHANGED <<now, storeVars, ledgerVars, verifyVars, trustVars, submitVars, localVars>>

\* one await storage.createAsset(assetData) of the loop returns
SeedCreateAsset(u) ==
    /\ seed[u].pc = "insert"
    /\ nextId' = nextId + 1
    /\ assets' = assets @@
                  ((nextId + 1) :> Stamped(demoAssets(seed[u].freezeAt)[seed[u].k + 1]))
    /\ seed' = [seed EXCEPT ![u] =
                    [pc |-> IF seed[u].k + 1 = Len(demoAssets(NullTime))
                            THEN "done" ELSE "insert",
                     k |-> seed[u].k + 1,
                     freezeAt |-> seed[u].freezeAt]]
    /\ UNCHANGED <<now, clientVars, ledgerVars, verifyVars, trustVars, submitVars, localVars>>

\* storage.createAsset throws: the catch logs and rethrows
SeedCreateAssetThrows(u) ==
    /\ seed[u].pc = "insert"
    /\ seed' = [seed EXCEPT ![u].pc = "failed"]
    /\ UNCHANGED <<now, storeVars, ledgerVars, verifyVars, trustVars, submitVars, localVars>>

NextSeed ==
    \/ \E u \in Users : SeedStart(u)
    \/ \E u \in Users : SeedGenerateChittyId(u)
    \/ \E u \in Users : SeedCreateAsset(u)
    \/ \E u \in Users : SeedCreateAssetThrows(u)
    \/ Tick

----------------------------------------------------------------------------
(* ChittyCloudMCP and ChittyEvidenceLedger against the collaborators *)

\* the freeze period, in days
FreezeWindowDays == 7

\* the largest value of the clock under SpecLedger
MaxDays == 7

\* well-formed chittyIds (UUIDs)
ChittyIds == {"id1", "id2"}

\* a chittyId that is no UUID
MalformedId == "not-a-uuid"

\* z.enum of EvidenceLedgerSchema.evidenceType
EvidenceTypes == {"document", "photo", "video", "audio", "digital", "physical"}

\* the evidence types callers are taken to send
EvidenceTypeInputs == {"document", "receipt"}

\* the awaits of submitEvidence at which a collaborator can fail
SubmitStages == <<"id", "schema", "register", "trust", "mint">>

\* freezeElapsed of section 4.4
FreezeElapsed(id) ==
    frozenAt[id] # NullTime /\ now >= frozenAt[id] + FreezeWindowDays

\* the chain receives a mint request for id and, when it answers ok, tx is the
\* transaction of its answer
ChainMint(id, ok, tx) ==
    /\ earlyMints' = IF FreezeElapsed(id) THEN earlyMints ELSE earlyMints \cup {id}
    /\ anchors' = IF ok THEN [anchors EXCEPT ![id] = @ \cup {tx}] ELSE anchors

\* ChittyCloudMCP.freezeAsset: POST /v1/chain/freeze; the chain accepts or not
FreezeAsset(id, ok) ==
    /\ frozenAt' = IF ok THEN [frozenAt EXCEPT ![id] = now] ELSE frozenAt
    /\ UNCHANGED <<now, storeVars, seedVars, verifyVars, trustVars, submitVars, registered,
                   earlyMints, anchors, localVars>>

\* ChittyCloudMCP.mintAssetToken: POST /v1/chain/mint
MintAssetToken(id, ok, tx) ==
    /\ ChainMint(id, ok, tx)
    /\ UNCHANGED <<now, storeVars, seedVars, verifyVars, trustVars, submitVars, frozenAt,
                   registered, localVars>>

\* the position of a stage among the awaits of submitEvidence
StageIndex(stage) ==
    CHOOSE i \in 1..Len(SubmitStages) : SubmitStages[i] = stage

\* whether the call gets past the await of the stage: failAt is the stage whose
\* collaborator throws, "none" when none does
Passes(stage, failAt) ==
    failAt = "none" \/ StageIndex(stage) < StageIndex(failAt)

\* EvidenceLedgerSchema.parse({chittyId, evidenceType, ...config})
SchemaAccepts(chittyId, evidenceType) ==
    chittyId \in ChittyIds /\ evidenceType \in EvidenceTypes

\* ChittyEvidenceLedger.submitEvidence. given is evidence.chittyId, Absent when the
\* caller gives none; generated is then the fresh id the id service answers.
SubmitEvidence(given, generated, evidenceType, failAt, tx) ==
    LET needsId == given = Absent
        chittyId == IF needsId THEN generated ELSE given
        gotId == ~needsId \/ Passes("id", failAt)
        parsed == gotId /\ SchemaAccepts(chittyId, evidenceType)
        didRegister == parsed /\ Passes("register", failAt)
        sentMint == parsed /\ Passes("trust", failAt)
        minted == parsed /\ Passes("mint", failAt)
    IN  /\ (failAt = "id") => needsId
        /\ registered' = IF didRegister THEN registered \cup {chittyId} ELSE registered
        /\ IF sentMint THEN ChainMint(chittyId, minted, tx)
           ELSE UNCHANGED <<earlyMints, anchors>>
        /\ UNCHANGED <<now, storeVars, seedVars, verifyVars, trustVars, submitVars, frozenAt,
                   localVars>>

\* time passes
TickDay ==
    /\ now < MaxDays
    /\ now' = now + 1
    /\ UNCHANGED <<storeVars, seedVars, ledgerVars, verifyVars, trustVars, submitVars,
                   localVars>>

NextLedger ==
    \/ \E id \in ChittyIds, ok \in BOOLEAN : FreezeAsset(id, ok)
    \/ \E id \in ChittyIds, ok \in BOOLEAN, tx \in TxHashes : MintAssetToken(id, ok, tx)
    \/ \E given \in ChittyIds \cup {MalformedId, Absent},
          evidenceType \in EvidenceTypeInputs,
          failAt \in {"none", "id", "schema", "register", "trust", "mint"},
          tx \in TxHashes :
            \E generated \in IF given = Absent THEN ChittyIds \ registered ELSE {given} :
                SubmitEvidence(given, generated, evidenceType, failAt, tx)
    \/ TickDay

----------------------------------------------------------------------------
(* ChittyEvidenceLedger.verifyEvidence *)

\* the trust scores the trust service is taken to answer
TrustScoreSamples == {0, 1, 2, 3, 4, 5, 10, 39, 40, 50, 79, 80, 85, 100}

\* trustLevel: z.number().min(1).max(5)
TrustLevels == 1..5

Pending == [st |-> "pending", verified |-> FALSE, trustScore |-> 0, confirmed |-> FALSE]

NoVerify ==
    [pc |-> "idle", trustLevel |-> 3, blockchainVerif |-> Pending, trustVerif |-> Pending,
     chainData |-> Pending, isAuthentic |-> FALSE, complianceLevel |-> "unset"]

\* the classification with thresholds on a 0..100 scale
calculateComplianceLevelPercent(blockchain, trustResult, chain) ==
    IF blockchain.verified /\ trustResult.trustScore >= 80 /\ chain.confirmed
    THEN "full"
    ELSE IF blockchain.verified /\ trustResult.trustScore >= 40
         THEN "partial"
         ELSE "minimal"

\* calculateComplianceLevel([blockchain, trust, chain])
calculateComplianceLevel(blockchain, trustResult, chain) ==
    IF blockchain.verified /\ trustResult.trustScore >= 4 /\ chain.confirmed
    THEN "full"
    ELSE IF blockchain.verified /\ trustResult.trustScore >= 2
         THEN "partial"
         ELSE "minimal"

\* verifyEvidence(chittyId) is called with this.config.trustLevel = level and starts
\* its three requests
VerifyEvidence(level) ==
    /\ verify.pc # "awaiting"
    /\ verify' = [NoVerify EXCEPT !.pc = "awaiting", !.trustLevel = level]
    /\ UNCHANGED <<now, storeVars, seedVars, ledgerVars, trustVars, submitVars, localVars>>

\* services.verify.verify(chittyId, {method: 'blockchain'}) answers
BlockchainVerifResolves(verified) ==
    /\ verify.pc = "awaiting" /\ verify.blockchainVerif.st = "pending"
    /\ verify' = [verify EXCEPT !.blockchainVerif =
                      [Pending EXCEPT !.st = "fulfilled", !.verified = verified]]
    /\ UNCHANGED <<now, storeVars, seedVars, ledgerVars, trustVars, submitVars, localVars>>

\* services.trust.calculate(chittyId) answers
TrustVerifResolves(score) ==
    /\ verify.pc = "awaiting" /\ verify.trustVerif.st = "pending"
    /\ verify' = [verify EXCEPT !.trustVerif =
                      [Pending EXCEPT !.st = "fulfilled", !.trustScore = score]]
    /\ UNCHANGED <<now, storeVars, seedVars, ledgerVars, trustVars, submitVars, localVars>>

\* services.chain.getTransaction(chittyId) answers
ChainDataResolves(confirmed) ==
    /\ verify.pc = "awaiting" /\ verify.chainData.st = "pending"
    /\ verify' = [verify EXCEPT !.chainData =
                      [Pending EXCEPT !.st = "fulfilled", !.confirmed = confirmed]]
    /\ UNCHANGED <<now, storeVars, seedVars, ledgerVars, trustVars, submitVars, localVars>>

\* callService throws for one of the three requests: the service is unreachable or
\* answers with a status that is not ok
CheckRejects(check) ==
    /\ verify.pc = "awaiting" /\ verify[check].st = "pending"
    /\ verify' = [verify EXCEPT ![check] = [Pending EXCEPT !.st = "rejected"]]
    /\ UNCHANGED <<now, storeVars, seedVars, ledgerVars, trustVars, submitVars, localVars>>

\* await Promise.all([...]) rejects as soon as one request has rejected
VerifyRejects ==
    /\ verify.pc = "awaiting"
    /\ \E check \in {"blockchainVerif", "trustVerif", "chainData"} :
            verify[check].st = "rejected"
    /\ verify' = [verify EXCEPT !.pc = "rejected"]
    /\ UNCHANGED <<now, storeVars, seedVars, ledgerVars, trustVars, submitVars, localVars>>

\* a return of verifyEvidence that also writes its outcome to the records
VerifyReturnsAndSettles ==
    /\ verify.pc = "awaiting"
    /\ \A check \in {"blockchainVerif", "trustVerif", "chainData"} :
            verify[check].st = "fulfilled"
    /\ verify' = [verify EXCEPT
            !.pc = "returned",
            !.isAuthentic = verify.blockchainVerif.verified
                            /\ verify.trustVerif.trustScore >= verify.trustLevel,
            !.complianceLevel = calculateComplianceLevel(
                verify.blockchainVerif, verify.trustVerif, verify.chainData)]
    /\ assets' = [id \in DOMAIN assets |->
                     [assets[id] EXCEPT !.chittyChainStatus = "settled"]]
    /\ UNCHANGED <<now, nextId, clientVars, seedVars, ledgerVars, trustVars,
                   submitVars, localVars>>

\* await Promise.all([...]) resolves once all three have answered, and
\* verifyEvidence returns
VerifyReturns ==
    /\ verify.pc = "awaiting"
    /\ \A check \in {"blockchainVerif", "trustVerif", "chainData"} :
            verify[check].st = "fulfilled"
    /\ verify' = [verify EXCEPT
            !.pc = "returned",
            !.isAuthentic = verify.blockchainVerif.verified
                            /\ verify.trustVerif.trustScore >= verify.trustLevel,
            !.complianceLevel = calculateComplianceLevel(
                verify.blockchainVerif, verify.trustVerif, verify.chainData)]
    /\ UNCHANGED <<now, storeVars, seedVars, ledgerVars, trustVars, submitVars, localVars>>

NextVerify ==
    \/ \E level \in TrustLevels : VerifyEvidence(level)
    \/ \E verified \in BOOLEAN : BlockchainVerifResolves(verified)
    \/ \E score \in TrustScoreSamples : TrustVerifResolves(score)
    \/ \E confirmed \in BOOLEAN : ChainDataResolves(confirmed)
    \/ \E check \in {"blockchainVerif", "trustVerif", "chainData"} : CheckRejects(check)
    \/ VerifyRejects
    \/ VerifyReturns

\* the rows clients are taken to create before a verification: a draft, a frozen
\* and a minted one
ClassifiedBodies ==
    { [chittyChainStatus |-> Absent, freezeTimestamp |-> AbsentTime,
       blockchainHash |-> Absent, metadata |-> Absent, trustScore |-> AbsentScore],
      [chittyChainStatus |-> "frozen", freezeTimestamp |-> now,
       blockchainHash |-> Absent, metadata |-> Absent, trustScore |-> AbsentScore],
      [chittyChainStatus |-> "minted", freezeTimestamp |-> now,
       blockchainHash |-> "0xa", metadata |-> Absent, trustScore |-> AbsentScore] }

\* verifyEvidence while the table has records
NextClassify ==
    \/ \E c \in Clients, body \in ClassifiedBodies : CreateAsset(c, body)
    \/ NextVerify

----------------------------------------------------------------------------
(* The trust score computations *)

\* what is not a number: Math.min(100, undefined)
JsNaN == 0 - 1000

\* assetData holds JavaScript values, written as literals
\* ToBoolean
Truthy(v) == v \notin {"undefined", "null", "0", "''", "false", "NaN"}

\* the assetData a caller passes
AssetData ==
    [purchasePrice : {"undefined", "0", "'3499.00'"},
     currentValue : {"undefined", "'3499.00'"},
     serialNumber : {"undefined", "''", "'MBP2024001'"},
     model : {"undefined", "'MBP2024001'"},
     evidenceCount : 0..1,
     verificationStatus : {"pending", "verified"}]

\* data.score of the trust service's answer
RemoteScores == {0 - 5, 0, 50, 100, 150}

\* data.confidence of the trust service's answer, in hundredths
RemoteConfidences == {50, 80, 90}

\* result.trustScore of the model's JSON answer
AiScores == {JsNaN, 0 - 5, 0, 85, 100, 150}

\* Math.min of two numbers
MathMin(a, b) == IF a = JsNaN \/ b = JsNaN THEN JsNaN ELSE IF a < b THEN a ELSE b

\* Math.max of two numbers
MathMax(a, b) == IF a = JsNaN \/ b = JsNaN THEN JsNaN ELSE IF a > b THEN a ELSE b

NoAssetData ==
    [purchasePrice |-> "undefined", currentValue |-> "undefined",
     serialNumber |-> "undefined", model |-> "undefined", evidenceCount |-> 0,
     verificationStatus |-> "pending"]

\* no answer of the trust service: fetch threw or response.ok is false
NoResponse == [ok |-> FALSE, score |-> 0, confidence |-> 0]

NoTrust ==
    [op |-> "none", assetData |-> NoAssetData, response |-> NoResponse,
     trustScore |-> 0, confidence |-> 0]

\* the baseline that counts a field as documented as soon as it is present
calculateFallbackTrustScorePresent(assetData) ==
    LET score ==
            50
            + (IF assetData.purchasePrice # "undefined"
                  /\ assetData.currentValue # "undefined"
               THEN 15 ELSE 0)
            + (IF assetData.serialNumber # "undefined" \/ assetData.model # "undefined"
               THEN 10 ELSE 0)
            + (IF assetData.evidenceCount > 0 THEN 10 ELSE 0)
            + (IF assetData.verificationStatus = "verified" THEN 15 ELSE 0)
    IN  [trustScore |-> MathMin(100, score), confidence |-> 80]

\* ChittyCloudMCP.calculateFallbackTrustScore
calculateFallbackTrustScore(assetData) ==
    LET score ==
            50
            + (IF Truthy(assetData.purchasePrice) /\ Truthy(assetData.currentValue)
               THEN 15 ELSE 0)
            + (IF Truthy(assetData.serialNumber) \/ Truthy(assetData.model)
               THEN 10 ELSE 0)
            + (IF assetData.evidenceCount > 0 THEN 10 ELSE 0)
            + (IF assetData.verificationStatus = "verified" THEN 15 ELSE 0)
    IN  [trustScore |-> MathMin(100, score), confidence |-> 80]

\* the trust score that keeps the baseline unless the answer is more confident
calculateTrustScoreMoreConfident(assetData, response) ==
    IF response.ok /\ response.confidence > 80
    THEN [trustScore |-> response.score, confidence |-> response.confidence]
    ELSE calculateFallbackTrustScore(assetData)

\* ChittyCloudMCP.calculateTrustScore, what it returns for an answer of the trust
\* service
calculateTrustScore(assetData, response) ==
    IF response.ok
    THEN [trustScore |-> response.score, confidence |-> response.confidence]
    ELSE calculateFallbackTrustScore(assetData)

\* ChittyCloudMCP.calculateTrustScore, the trust service answering ok with
\* {score, confidence}
CalculateTrustScore(assetData, score, confidence) ==
    LET response == [ok |-> TRUE, score |-> score, confidence |-> confidence]
    IN  /\ trust' = [op |-> "remote", assetData |-> assetData, response |-> response,
                     trustScore |-> calculateTrustScore(assetData, response).trustScore,
                     confidence |-> calculateTrustScore(assetData, response).confidence]
        /\ UNCHANGED <<now, storeVars, seedVars, ledgerVars, verifyVars, submitVars, localVars>>

\* ChittyCloudMCP.calculateTrustScore, the trust service not answering ok or fetch
\* throwing
CalculateTrustScoreFallsBack(assetData) ==
    /\ trust' = [op |-> "fallback", assetData |-> assetData, response |-> NoResponse,
                 trustScore |-> calculateTrustScore(assetData, NoResponse).trustScore,
                 confidence |-> calculateTrustScore(assetData, NoResponse).confidence]
    /\ UNCHANGED <<now, storeVars, seedVars, ledgerVars, verifyVars, submitVars, localVars>>

\* AIAnalysisService.calculateTrustScore, the model answering JSON whose trustScore
\* is answer
AiCalculateTrustScore(answer) ==
    /\ trust' = [op |-> "ai", assetData |-> NoAssetData, response |-> NoResponse,
                 trustScore |-> MathMax(0, MathMin(100, answer)), confidence |-> 0]
    /\ UNCHANGED <<now, storeVars, seedVars, ledgerVars, verifyVars, submitVars, localVars>>

\* AIAnalysisService.calculateTrustScore, the request or JSON.parse throwing
AiCalculateTrustScoreThrows ==
    /\ trust' = [op |-> "ai-failed", assetData |-> NoAssetData,
                 response |-> NoResponse, trustScore |-> 0,
                 confidence |-> 0]
    /\ UNCHANGED <<now, storeVars, seedVars, ledgerVars, verifyVars, submitVars, localVars>>

NextTrust ==
    \/ \E assetData \in AssetData, score \in RemoteScores,
          confidence \in RemoteConfidences :
            CalculateTrustScore(assetData, score, confidence)
    \/ \E assetData \in AssetData : CalculateTrustScoreFallsBack(assetData)
    \/ \E answer \in AiScores : AiCalculateTrustScore(answer)
    \/ AiCalculateTrustScoreThrows

----------------------------------------------------------------------------
(* ChittyEvidenceLedger.submitEvidence, await by await *)

\* retentionDays: '2555', in days
RetentionDays == 2555

\* the largest number of failing answers in a row a service is taken to give
MaxFailures == 3

\* evidence.data: empty or not
EvidenceData == {"", "0xdata"}

\* the services submitEvidence calls, in the order of its awaits
Collaborators == {"id", "schema", "register", "trust", "mint"}

\* lost: the chittyIds that the chain anchored for a mint call of submitEvidence
\* which nevertheless failed (the answer did not arrive)
NoSubmission ==
    [pc |-> "idle", given |-> Absent, chittyId |-> Absent, evidenceType |-> "document",
     data |-> "", parses |-> 0, fetches |-> [c \in Collaborators |-> 0],
     error |-> "none", failedAt |-> "none", submissionTimestamp |-> NullTime,
     retentionUntil |-> NullTime, lost |-> {}]

\* a call that fetches again after every failing answer
callServiceRetrying(failures) ==
    [attempts |-> failures + 1, ok |-> TRUE]

\* ChittyCloudflareCore.callService against a service that answers its first
\* `failures` requests with a status that is not ok (or not at all): the number of
\* fetches it makes and whether it resolves
callService(failures) ==
    [attempts |-> 1, ok |-> failures = 0]

\* the call of a collaborator at the await `stage`: the submission goes on to
\* `next` when the call resolves and is rejected with the service's error when not
AwaitService(stage, next, failures) ==
    [submission EXCEPT
        !.fetches[stage] = callService(failures).attempts,
        !.pc = IF callService(failures).ok THEN next ELSE "rejected",
        !.error = IF callService(failures).ok THEN "none" ELSE "ServiceError",
        !.failedAt = IF callService(failures).ok THEN "none" ELSE stage]

\* submitEvidence(evidence) is called
SubmitCall(given, evidenceType, data) ==
    /\ submission.pc \in {"idle", "returned", "rejected"}
    /\ submission' = [NoSubmission EXCEPT
            !.pc = IF given = Absent THEN "id" ELSE "parse",
            !.given = given, !.chittyId = given,
            !.evidenceType = evidenceType, !.data = data, !.lost = submission.lost]
    /\ UNCHANGED <<now, storeVars, seedVars, ledgerVars, verifyVars, trustVars, localVars>>

\* await services.id.generate('evidence')
SubmitGenerateId(generated, failures) ==
    /\ submission.pc = "id"
    /\ submission' = [AwaitService("id", "parse", failures) EXCEPT
            !.chittyId = IF callService(failures).ok THEN generated ELSE Absent]
    /\ UNCHANGED <<now, storeVars, seedVars, ledgerVars, verifyVars, trustVars, localVars>>

\* EvidenceLedgerSchema.parse({chittyId, evidenceType, ...this.config})
SubmitParse ==
    /\ submission.pc = "parse"
    /\ submission' = [submission EXCEPT
            !.parses = @ + 1,
            !.pc = IF SchemaAccepts(submission.chittyId, submission.evidenceType)
                   THEN "schema" ELSE "rejected",
            !.error = IF SchemaAccepts(submission.chittyId, submission.evidenceType)
                      THEN "none" ELSE "ZodError",
            !.failedAt = IF SchemaAccepts(submission.chittyId, submission.evidenceType)
                         THEN "none" ELSE "parse"]
    /\ UNCHANGED <<now, storeVars, seedVars, ledgerVars, verifyVars, trustVars, localVars>>

\* await services.schema.validate('evidence-v1', ...)
SubmitSchemaValidate(failures) ==
    /\ submission.pc = "schema"
    /\ submission' = AwaitService("schema", "register", failures)
    /\ UNCHANGED <<now, storeVars, seedVars, ledgerVars, verifyVars, trustVars, localVars>>

\* await services.assets.register({... submissionTimestamp: new Date() ...})
SubmitRegister(failures) ==
    /\ submission.pc = "register"
    /\ submission' = [AwaitService("register", "trust", failures) EXCEPT
            !.submissionTimestamp = now]
    /\ registered' = IF callService(failures).ok
                     THEN registered \cup {submission.chittyId} ELSE registered
    /\ UNCHANGED <<now, storeVars, seedVars, verifyVars, trustVars, frozenAt,
                   earlyMints, anchors, localVars>>

\* await services.trust.calculate(chittyId, ...)
SubmitTrustCalculate(failures) ==
    /\ submission.pc = "trust"
    /\ submission' = AwaitService("trust", "mint", failures)
    /\ UNCHANGED <<now, storeVars, seedVars, ledgerVars, verifyVars, trustVars, localVars>>

\* await services.chain.mint(chittyId, ...) and, when it resolves, the return with
\* retentionUntil: new Date(Date.now() + retentionDays days). anchored: the chain
\* made the anchor although the call fails, its answer being lost on the way
SubmitMint(failures, anchored, tx) ==
    /\ submission.pc = "mint"
    /\ submission' = [AwaitService("mint", "returned", failures) EXCEPT
            !.retentionUntil = IF callService(failures).ok THEN now + RetentionDays
                               ELSE NullTime,
            !.lost = IF ~callService(failures).ok /\ anchored
                     THEN @ \cup {submission.chittyId} ELSE @]
    /\ ChainMint(submission.chittyId, callService(failures).ok \/ anchored, tx)
    /\ UNCHANGED <<now, storeVars, seedVars, verifyVars, trustVars, frozenAt,
                   registered, localVars>>

\* time passes while a submission is in progress or between submissions
SubmitTick ==
    /\ now < MaxDays
    /\ now' = now + 1
    /\ UNCHANGED <<storeVars, seedVars, ledgerVars, verifyVars, trustVars, submitVars,
                   localVars>>

NextSubmit ==
    \/ \E given \in ChittyIds \cup {MalformedId, Absent},
          evidenceType \in EvidenceTypeInputs, data \in EvidenceData :
            SubmitCall(given, evidenceType, data)
    \/ \E generated \in ChittyIds, failures \in 0..MaxFailures :
            SubmitGenerateId(generated, failures)
    \/ SubmitParse
    \/ \E failures \in 0..MaxFailures : SubmitSchemaValidate(failures)
    \/ \E failures \in 0..MaxFailures : SubmitRegister(failures)
    \/ \E failures \in 0..MaxFailures : SubmitTrustCalculate(failures)
    \/ \E failures \in 0..MaxFailures, anchored \in BOOLEAN, tx \in TxHashes :
            SubmitMint(failures, anchored, tx)
    \/ SubmitTick

----------------------------------------------------------------------------
(* listToolResources *)

\* the ids of the array literal toolResources
RegisteredResources ==
    <<"cloudflare.workers.assets", "notion.search", "google.drive.search",
      "outlook.mail.search", "neon.metadata.search">>

\* the elements callers push
PushedResources == {"test.invalid", "test.other"}

\* how many elements callers push in all
MaxPushes == 3

\* the modules that import listToolResources
Importers == {"m1", "m2"}

\* toolResources is the module's array; holds[m] says that m holds the array its
\* last call returned, returned[m] is what that call returned (<<>> before it)
NoTools ==
    [toolResources |-> RegisteredResources,
     holds |-> [m \in Importers |-> FALSE],
     returned |-> [m \in Importers |-> <<>>]]

\* listToolResources(): return toolResources, the array itself
ListToolResources(m) ==
    /\ tools' = [tools EXCEPT !.holds[m] = TRUE, !.returned[m] = tools.toolResources]
    /\ UNCHANGED <<now, storeVars, seedVars, ledgerVars, verifyVars, trustVars,
                   submitVars, uuid, core>>

\* resources.push(item) on the array a call returned: it is toolResources
PushResource(m, item) ==
    /\ tools.holds[m]
    /\ Len(tools.toolResources) < Len(RegisteredResources) + MaxPushes
    /\ tools' = [tools EXCEPT !.toolResources = Append(@, item)]
    /\ UNCHANGED <<now, storeVars, seedVars, ledgerVars, verifyVars, trustVars,
                   submitVars, uuid, core>>

NextTools ==
    \/ \E m \in Importers : ListToolResources(m)
    \/ \E m \in Importers, item \in PushedResources : PushResource(m, item)

----------------------------------------------------------------------------
(* ChittyCloudMCP.generateUUIDv7 *)

\* hexadecimal digits, by value
HexDigits == 0..15

\* Date.now().toString(16) for the epoch, for a time of this decade (11 digits)
\* and for a time after the year 2527 (12 digits)
TimestampHexSamples ==
    { <<0>>,
      <<1, 9, 10, 3, 15, 0, 12, 7, 5, 11, 2>>,
      <<1, 0, 0, 0, 0, 0, 0, 0, 0, 0, 0, 0>> }

\* String.prototype.padStart(n, '0')
padStart(str, n) ==
    [i \in 1..(IF Len(str) >= n THEN 0 ELSE n - Len(str)) |-> 0] \o str

\* String.prototype.slice(from, to), positions counted from 0
slice(str, from, to) ==
    SubSeq(str, from + 1, IF to > Len(str) THEN Len(str) ELSE to)

\* the 18 random digits: every digit r but the one at position 3, which is v
randomHexOf(r, v) ==
    [i \in 1..18 |-> IF i = 4 THEN v ELSE r]

\* generateUUIDv7 for a clock reading and a draw of random digits: the five
\* groups that are joined with '-'
generateUUIDv7(timestamp, randomHex) ==
    LET timestampHex == padStart(timestamp, 12)
    IN  << slice(timestampHex, 0, 8),
           slice(timestampHex, 8, 12),
           <<7>> \o slice(randomHex, 0, 3),
           <<8 + (slice(randomHex, 3, 4)[1] % 4)>> \o slice(randomHex, 4, 7),
           slice(randomHex, 7, 17) >>

\* z.string().uuid(): groups of 8, 4, 4, 4 and 12 hexadecimal digits
IsUuid(groups) ==
    /\ Len(groups) = 5
    /\ <<Len(groups[1]), Len(groups[2]), Len(groups[3]), Len(groups[4]),
         Len(groups[5])>> = <<8, 4, 4, 4, 12>>
    /\ \A g \in 1..5 : \A i \in 1..Len(groups[g]) : groups[g][i] \in HexDigits

\* generateChittyId falls back to generateUUIDv7()
GenerateUUIDv7(timestamp, r, v) ==
    /\ uuid' = generateUUIDv7(timestamp, randomHexOf(r, v))
    /\ UNCHANGED <<now, storeVars, seedVars, ledgerVars, verifyVars, trustVars,
                   submitVars, tools, core>>

NextUuid ==
    \E timestamp \in TimestampHexSamples, r \in HexDigits, v \in HexDigits :
        GenerateUUIDv7(timestamp, r, v)

----------------------------------------------------------------------------
(* initializeChittyCore and getChittyServices *)

\* the callers of initializeChittyCore
Callers == {"p1", "p2", "p3"}

\* chittyInstance = null
NoInstance == 0

\* a ChittyCloudflareCore right after its constructor: the services map is empty
\* and initialized is false
NewCore(kind) ==
    [kind |-> kind, services |-> FALSE, initialized |-> FALSE, failed |-> FALSE]

NoCaller == [pc |-> "idle", got |-> NoInstance, gotReady |-> FALSE, services |-> "none"]

\* chittyInstance names an element of instances (NoInstance for null)
NoCore ==
    [chittyInstance |-> NoInstance, instances |-> <<>>,
     callers |-> [p \in Callers |-> NoCaller]]

\* an instance a caller can work with: its initialize() has completed, or it is the
\* fallback core
Ready(instance) ==
    instance.initialized \/ instance.kind = "fallback"

\* getServiceProxy(serviceName, methods): throws unless the services map has the
\* service
getServiceProxy(instance) ==
    IF instance.services THEN "ok" ELSE "threw"

\* the catch of initializeChittyCore: chittyInstance becomes a new core with every
\* service disabled, whose initialize() is not called, and is returned to p
FallBack(p, instances) ==
    [chittyInstance |-> Len(instances) + 1,
     instances |-> Append(instances, NewCore("fallback")),
     callers |-> [core.callers EXCEPT ![p] =
                     [NoCaller EXCEPT !.pc = "returned", !.got = Len(instances) + 1,
                                      !.gotReady = TRUE]]]

\* initializeChittyCore() is called and chittyInstance is set: it is returned
InitializeReturnsInstance(p) ==
    /\ core.callers[p].pc = "idle"
    /\ core.chittyInstance # NoInstance
    /\ core' = [core EXCEPT !.callers[p] =
                    [NoCaller EXCEPT
                        !.pc = "returned", !.got = core.chittyInstance,
                        !.gotReady = Ready(core.instances[core.chittyInstance])]]
    /\ UNCHANGED <<now, storeVars, seedVars, ledgerVars, verifyVars, trustVars,
                   submitVars, tools, uuid>>

\* initializeChittyCore() is called and chittyInstance is null: the core is
\* constructed and assigned, initialize() fills the services map and the call waits
\* at the first await of initialize(); or the constructor throws
InitializeStarts(p, constructed) ==
    /\ core.callers[p].pc = "idle"
    /\ core.chittyInstance = NoInstance
    /\ core' = IF constructed
               THEN [chittyInstance |-> Len(core.instances) + 1,
                     instances |-> Append(core.instances,
                                          [NewCore("configured") EXCEPT !.services = TRUE]),
                     callers |-> [core.callers EXCEPT ![p].pc = "initializing"]]
               ELSE FallBack(p, core.instances)
    /\ UNCHANGED <<now, storeVars, seedVars, ledgerVars, verifyVars, trustVars,
                   submitVars, tools, uuid>>

\* await chittyInstance.initialize() resolves: return chittyInstance
InitializeCompletes(p) ==
    /\ core.callers[p].pc = "initializing"
    /\ core' = [core EXCEPT
            !.instances[core.chittyInstance].initialized = TRUE,
            !.callers[p] = [NoCaller EXCEPT !.pc = "returned",
                                            !.got = core.chittyInstance,
                                            !.gotReady = TRUE]]
    /\ UNCHANGED <<now, storeVars, seedVars, ledgerVars, verifyVars, trustVars,
                   submitVars, tools, uuid>>

\* await chittyInstance.initialize() rejects: the catch falls back
InitializeFails(p) ==
    /\ core.callers[p].pc = "initializing"
    /\ core' = FallBack(p, [core.instances EXCEPT ![core.chittyInstance].failed = TRUE])
    /\ UNCHANGED <<now, storeVars, seedVars, ledgerVars, verifyVars, trustVars,
                   submitVars, tools, uuid>>

\* getChittyServices() (and getEvidenceLedger() through it) by a caller whose
\* initializeChittyCore() has returned: getChittyCore() and then core.schema()
GetChittyServices(p) ==
    /\ core.callers[p].pc = "returned"
    /\ core' = [core EXCEPT !.callers[p].services =
                    getServiceProxy(core.instances[core.chittyInstance])]
    /\ UNCHANGED <<now, storeVars, seedVars, ledgerVars, verifyVars, trustVars,
                   submitVars, tools, uuid>>

\* a caller calls initializeChittyCore() again later
CallerReturns(p) ==
    /\ core.callers[p].pc = "returned"
    /\ core' = [core EXCEPT !.callers[p] = NoCaller]
    /\ UNCHANGED <<now, storeVars, seedVars, ledgerVars, verifyVars, trustVars,
                   submitVars, tools, uuid>>

NextCore ==
    \/ \E p \in Callers : InitializeReturnsInstance(p)
    \/ \E p \in Callers, constructed \in BOOLEAN : InitializeStarts(p, constructed)
    \/ \E p \in Callers : InitializeCompletes(p)
    \/ \E p \in Callers : InitializeFails(p)
    \/ \E p \in Callers : GetChittyServices(p)
    \/ \E p \in Callers : CallerReturns(p)

----------------------------------------------------------------------------
(* POST /api/assets/:assetId/calculate-trust-score *)

\* trustScore.toString() as a decimal(3,1) value, in tenths
ToDecimal(score) ==
    IF score = JsNaN THEN JsNaN ELSE score * 10

\* decimal(3,1) holds NaN and the values below 100
FitsDecimal(tenths) ==
    tenths = JsNaN \/ (tenths > 0 - 1000 /\ tenths < 1000)

\* the route: the AI trust score of the row is computed and written with
\* storage.updateAsset; the update throws when the column cannot hold the value, and
\* the route answers 500
RecalculateTrustScore(c, id, answer) ==
    LET trustScore == MathMax(0, MathMin(100, answer))
        updates == [chittyChainStatus |-> Absent, freezeTimestamp |-> AbsentTime,
                    blockchainHash |-> Absent, metadata |-> Absent,
                    trustScore |-> ToDecimal(trustScore)]
    IN  /\ id \in DOMAIN assets
        /\ assets' = IF FitsDecimal(ToDecimal(trustScore)) THEN UpdateAsset(id, updates)
                      ELSE assets
        /\ seen' = IF FitsDecimal(ToDecimal(trustScore)) THEN Invalidate(id, c) ELSE seen
        /\ UNCHANGED <<now, nextId, lastPut, seedVars, ledgerVars, verifyVars,
                       trustVars, submitVars, localVars>>

\* the routes that write a row, the trust score route included
NextScore ==
    \/ \E c \in Clients, body \in ClassifiedBodies : CreateAsset(c, body)
    \/ \E c \in Clients, id \in AssetIds, updates \in ClassifiedBodies :
            PutAsset(c, id, updates)
    \/ \E c \in Clients, id \in AssetIds, answer \in AiScores :
            RecalculateTrustScore(c, id, answer)
    \/ \E c \in Clients, id \in AssetIds : DeleteAsset(c, id)
    \/ Tick

----------------------------------------------------------------------------
(* Specifications *)

Init ==
    /\ now = 0
    /\ assets = <<>>
    /\ nextId = 0
    /\ seen = [c \in Clients |-> NoSnapshot]
    /\ lastPut = NoPut
    /\ seed = [u \in Users |-> NoSeed]
    /\ frozenAt = [id \in ChittyIds |-> NullTime]
    /\ registered = {}
    /\ earlyMints = {}
    /\ anchors = [id \in ChittyIds |-> {}]
    /\ verify = NoVerify
    /\ trust = NoTrust
    /\ submission = NoSubmission
    /\ tools = NoTools
    /\ uuid = <<>>
    /\ core = NoCore

Next ==
    \/ \E c \in Clients, body \in AssetBodies : CreateAsset(c, body)
    \/ \E c \in Clients, id \in AssetIds : GetAsset(c, id)
    \/ \E c \in Clients, id \in AssetIds, updates \in AssetBodies : PutAsset(c, id, updates)
    \/ \E c \in Clients, id \in AssetIds : DeleteAsset(c, id)
    \/ Tick

Spec == Init /\ [][Next]_vars

SpecScore == Init /\ [][NextScore]_vars

SpecSeed == Init /\ [][NextSeed]_vars

SpecLedger == Init /\ [][NextLedger]_vars

SpecVerify == Init /\ [][NextVerify]_vars

\* verifyEvidence with the event loop running the continuation of Promise.all as
\* soon as it can; a collaborator may never answer
SpecVerifyFair ==
    Init /\ [][NextVerify]_vars /\ WF_vars(VerifyRejects) /\ WF_vars(VerifyReturns)

SpecTrust == Init /\ [][NextTrust]_vars

SpecClassify == Init /\ [][NextClassify]_vars

SpecSubmit == Init /\ [][NextSubmit]_vars

SpecTools == Init /\ [][NextTools]_vars

SpecUuid == Init /\ [][NextUuid]_vars

SpecCore == Init /\ [][NextCore]_vars

----------------------------------------------------------------------------
(* Claims *)

\* C1: no mint request reaches the chain for a record whose freeze window has
\* not elapsed, at submission or later: a premature mint fails and changes
\* nothing.
C1_NoMintBeforeFreezeWindow ==
    earlyMints = {}

C3_StaleWriterNeverApplied ==
    lastPut.stale => ~lastPut.applied

\* C4: the lifecycle state of a record only moves forward along
\* draft -> frozen -> minted -> settled or into disputed; disputed and
\* settled records never change state again.
C4_StateOnlyMovesForward ==
    [][\A id \in DOMAIN assets \cap DOMAIN assets' :
          LET s == assets[id].chittyChainStatus
              t == assets'[id].chittyChainStatus
          IN  \/ s = t
              \/ s = "draft" /\ t = "frozen"
              \/ s = "frozen" /\ t = "minted"
              \/ s = "minted" /\ t = "settled"
              \/ s \in {"draft", "frozen", "minted"} /\ t = "disputed"]_vars

\* C5: a dispute of an existing draft, frozen or minted record succeeds and
\* leaves it disputed; a dispute of a settled record fails and leaves it
\* settled.
C5_DisputeFromNonTerminalOnly ==
    (lastPut.applied /\ lastPut.requested = "disputed") =>
        /\ lastPut.from \in {"draft", "frozen", "minted"} => lastPut.to = "disputed"
        /\ lastPut.from = "settled" => lastPut.to = "settled"

\* C6: the freeze timestamp of a stored record is set if and only if its
\* state is frozen, minted or settled.
C6_FreezeAtIffFrozenOrLater ==
    \A id \in DOMAIN assets :
        assets[id].freezeTimestamp # NullTime
            <=> assets[id].chittyChainStatus \in {"frozen", "minted", "settled"}

\* C7: the chain reference of a stored record is set if and only if its
\* state is minted or settled.
C7_ChainReferenceIffMintedOrSettled ==
    \A id \in DOMAIN assets :
        assets[id].blockchainHash # Null
            <=> assets[id].chittyChainStatus \in {"minted", "settled"}

\* C8 as stated: the compliance level a verification returns is full iff the
\* chain is verified, trustScore >= 80 and the third check is verified; else
\* partial iff the chain is verified and trustScore >= 40; else minimal iff at
\* least one of the three checks succeeded; else none.
C8_ComplianceLevelAsStated ==
    verify.pc = "returned" =>
        LET v == verify.blockchainVerif.verified
            t == verify.trustVerif.trustScore
            c == verify.chainData.confirmed
        IN  verify.complianceLevel =
                IF v /\ t >= 80 /\ c THEN "full"
                ELSE IF v /\ t >= 40 THEN "partial"
                ELSE IF v \/ t >= 40 \/ c THEN "minimal"
                ELSE "none"

\* C8: the compliance level a verification returns depends only on
\* (verified, trustScore, confirmed): it is full iff verified and
\* trustScore >= 4 and confirmed; partial iff verified and trustScore >= 2 and
\* not full; minimal in every other case, and never none. In particular
\* (true,85,true) -> full, (true,50,false) -> partial, (false,50,true) -> minimal
\* and (false,10,false) -> minimal.
C8_ComplianceLevelOfTheThreeChecks ==
    verify.pc = "returned" =>
        LET v == verify.blockchainVerif.verified
            t == verify.trustVerif.trustScore
            c == verify.chainData.confirmed
            level == verify.complianceLevel
        IN  /\ level \in {"full", "partial", "minimal"}
            /\ level = "full" <=> (v /\ t >= 4 /\ c)
            /\ level = "partial" <=> (v /\ t >= 2 /\ ~(t >= 4 /\ c))
            /\ level = "minimal" <=> (~v \/ t < 2)
            /\ (v /\ t = 85 /\ c) => level = "full"
            /\ (v /\ t = 50 /\ ~c) => level = "partial"
            /\ (~v /\ t = 50 /\ c) => level = "minimal"
            /\ (~v /\ t = 10 /\ ~c) => level = "minimal"

\* C8 happens: a verification whose three checks all failed on the claim's
\* example (false, 10, false) has returned, classified minimal.
C8_AllFailedClassifiedMinimal ==
    /\ verify.pc = "returned"
    /\ ~verify.blockchainVerif.verified
    /\ verify.trustVerif.trustScore = 10
    /\ ~verify.chainData.confirmed
    /\ verify.complianceLevel = "minimal"

\* C9: when one of the three checks of a verification cannot complete because
\* its collaborator is unreachable or errors, the error is never propagated to
\* the caller: the verification does not end rejected.
C9_CollaboratorErrorNeverPropagates ==
    \A check \in {"blockchainVerif", "trustVerif", "chainData"} :
        verify[check].st = "rejected" => verify.pc \in {"awaiting", "returned"}

\* C10: every trust score returned by a trust score computation (fallback,
\* trust service, AI) is a number in the range 0..100.
C10_TrustScoreInRange ==
    trust.op # "none" =>
        /\ trust.trustScore # JsNaN
        /\ 0 <= trust.trustScore
        /\ trust.trustScore <= 100

\* C11 as stated: the answer of the trust service replaces the baseline only
\* when its confidence is above 0.8; an answer with confidence <= 0.8 returns
\* the baseline's score and confidence.
C11_LowConfidenceKeepsBaseline ==
    (trust.op = "remote" /\ trust.response.confidence <= 80) =>
        /\ trust.trustScore = calculateFallbackTrustScore(trust.assetData).trustScore
        /\ trust.confidence = 80

\* C11: whenever the trust service answers ok, its (score, confidence) is what
\* is returned, whatever the confidence; the baseline is returned exactly when
\* the service does not answer ok.
C11_AnswerAlwaysReplacesBaseline ==
    /\ trust.op = "remote" =>
            /\ trust.trustScore = trust.response.score
            /\ trust.confidence = trust.response.confidence
    /\ trust.op = "fallback" =>
            /\ ~trust.response.ok
            /\ trust.trustScore = calculateFallbackTrustScore(trust.assetData).trustScore
            /\ trust.confidence = 80

\* C11 happens: an answer of confidence 0.5 was returned in place of a baseline
\* that differs from it.
C11_LowConfidenceAnswerReturned ==
    /\ trust.op = "remote"
    /\ trust.response.confidence = 50
    /\ trust.confidence = 50
    /\ trust.trustScore = 0
    /\ calculateFallbackTrustScore(trust.assetData).trustScore = 100

\* C12 as stated: the baseline is 50, +15 if a purchase value and a current
\* value are both present, +10 if a serial number or a model is present, +10
\* if there is supporting evidence, +15 if the prior verification is full,
\* with confidence 0.8.
C12_BaselineCountsPresentFields ==
    trust.op = "fallback" =>
        LET a == trust.assetData
        IN  /\ trust.trustScore =
                    50
                    + (IF a.purchasePrice # "undefined" /\ a.currentValue # "undefined"
                       THEN 15 ELSE 0)
                    + (IF a.serialNumber # "undefined" \/ a.model # "undefined"
                       THEN 10 ELSE 0)
                    + (IF a.evidenceCount > 0 THEN 10 ELSE 0)
                    + (IF a.verificationStatus = "verified" THEN 15 ELSE 0)
            /\ trust.confidence = 80

\* C12: the baseline is 50, +15 if purchasePrice and currentValue are both
\* truthy (present, and neither 0 nor empty), +10 if serialNumber or model is
\* truthy, +10 if evidenceCount > 0, +15 if verificationStatus is 'verified';
\* it lies within 50..100 and its confidence is 0.8.
C12_BaselineCountsTruthyFields ==
    trust.op = "fallback" =>
        LET a == trust.assetData
            documented(v) == v \notin {"undefined", "0", "''"}
        IN  /\ trust.trustScore =
                    50
                    + (IF documented(a.purchasePrice) /\ documented(a.currentValue)
                       THEN 15 ELSE 0)
                    + (IF documented(a.serialNumber) \/ documented(a.model)
                       THEN 10 ELSE 0)
                    + (IF a.evidenceCount > 0 THEN 10 ELSE 0)
                    + (IF a.verificationStatus = "verified" THEN 15 ELSE 0)
            /\ trust.trustScore >= 50 /\ trust.trustScore <= 100
            /\ trust.confidence = 80

\* C12 happens: a baseline was computed for a record whose purchase price is 0
\* and that has every other field, evidence and a verification: 85.
C12_ZeroPriceBaseline ==
    /\ trust.op = "fallback"
    /\ trust.assetData.purchasePrice = "0"
    /\ trust.assetData.currentValue = "'3499.00'"
    /\ trust.assetData.serialNumber = "'MBP2024001'"
    /\ trust.assetData.evidenceCount = 1
    /\ trust.assetData.verificationStatus = "verified"
    /\ trust.trustScore = 85

\* C13: when the trust scorer is unavailable, a submission still completes:
\* no submission is rejected with the error of its trust score call.
C13_ScorerFailureNeverRejectsSubmission ==
    ~(submission.pc = "rejected" /\ submission.failedAt = "trust")

\* C15: the retentionUntil a submission returns is exactly its submission
\* time plus 2555 days.
C15_RetentionIsSubmissionPlus2555Days ==
    submission.pc = "returned" =>
        submission.retentionUntil = submission.submissionTimestamp + RetentionDays

\* C19: a submission whose evidenceType is not one of the six known types or
\* whose data is empty registers nothing and calls neither the ledger, the
\* trust nor the chain collaborator.
C19_InvalidSubmissionPersistsNothing ==
    (submission.pc # "idle"
     /\ (submission.evidenceType \notin EvidenceTypes \/ submission.data = "")) =>
        /\ submission.fetches["register"] = 0
        /\ submission.fetches["trust"] = 0
        /\ submission.fetches["mint"] = 0
        /\ submission.pc # "returned"

\* C20: a collaborator call of a submission is attempted at most 3 times
\* before its error is surfaced, and a validation error is surfaced after
\* exactly one attempt.
C20_AttemptsBounded ==
    /\ \A c \in Collaborators : submission.fetches[c] <= 3
    /\ submission.error = "ServiceError" =>
            /\ submission.pc = "rejected"
            /\ submission.fetches[submission.failedAt] \in 1..3
    /\ submission.error = "ZodError" =>
            /\ submission.pc = "rejected"
            /\ submission.parses = 1

\* C20 happens: a submission was rejected with the error of the chain service
\* after the calls before it had resolved.
C20_MintCallFailedOnce ==
    /\ submission.pc = "rejected"
    /\ submission.error = "ServiceError"
    /\ submission.failedAt = "mint"
    /\ submission.fetches["mint"] = 1
    /\ submission.fetches["trust"] = 1

\* C14: at the end of the sequence submit, freeze, wait, mint, settle, the
\* record is settled with a chain reference and a freeze timestamp: the step
\* that settles a minted record leaves it with both set.
C14_SettledAfterRoundTripHasReferences ==
    [][\A id \in DOMAIN assets \cap DOMAIN assets' :
          (assets[id].chittyChainStatus = "minted"
           /\ assets'[id].chittyChainStatus = "settled") =>
              /\ assets'[id].blockchainHash # Null
              /\ assets'[id].freezeTimestamp # NullTime
              /\ assets'[id].freezeTimestamp <= now]_vars

\* C16: a record whose state is disputed is never deleted: a step leaves
\* every disputed record in the table.
C16_DisputedNeverDeleted ==
    [][\A id \in DOMAIN assets :
          assets[id].chittyChainStatus = "disputed" => id \in DOMAIN assets']_vars

\* C17: a record becomes settled only from minted and with the chain
\* reference it already has; a settlement that names another reference
\* leaves the state and the reference unchanged.
C17_SettleOnlyMintedWithSameReference ==
    [][\A id \in DOMAIN assets \cap DOMAIN assets' :
          (assets[id].chittyChainStatus # "settled"
           /\ assets'[id].chittyChainStatus = "settled") =>
              /\ assets[id].chittyChainStatus = "minted"
              /\ assets[id].blockchainHash # Null
              /\ assets'[id].blockchainHash = assets[id].blockchainHash]_vars

\* C18: a record becomes frozen only from draft, and then its freeze
\* timestamp is the time of the step; the freeze timestamp of a record that
\* is already frozen, minted, settled or disputed does not change.
C18_FreezeOnlyFromDraft ==
    [][\A id \in DOMAIN assets \cap DOMAIN assets' :
          /\ (assets[id].chittyChainStatus # "frozen"
              /\ assets'[id].chittyChainStatus = "frozen") =>
                 /\ assets[id].chittyChainStatus = "draft"
                 /\ assets'[id].freezeTimestamp = now
          /\ assets[id].chittyChainStatus # "draft" =>
                 assets'[id].freezeTimestamp = assets[id].freezeTimestamp]_vars

C26_EveryCallReturnsTheFiveResources ==
    \A m \in Importers :
        tools.holds[m] => tools.returned[m] = RegisteredResources

\* C27: every identifier generateUUIDv7 produces is a well-formed UUID of
\* version 7: hexadecimal groups of 8, 4, 4, 4 and 12 digits, the third
\* beginning with 7, which the schema's uuid check accepts.
C27_GeneratedIdIsUuidV7 ==
    uuid # <<>> => (IsUuid(uuid) /\ uuid[3][1] = 7)

C29_CallersShareOneReadyInstance ==
    /\ \A p \in Callers :
            core.callers[p].pc = "returned" => core.callers[p].gotReady
    /\ \A p, q \in Callers :
            (core.callers[p].pc = "returned" /\ core.callers[q].pc = "returned") =>
                core.callers[p].got = core.callers[q].got

\* C21: after a mint whose anchor was made but whose call failed, the next
\* attempt for that id issues no second anchor call: no mint request is sent
\* for it again and its anchor stays the one the chain holds.
C21_NoSecondAnchorAfterLostMint ==
    [][\A id \in submission.lost :
          /\ anchors'[id] = anchors[id]
          /\ ~(submission.pc = "mint" /\ submission.chittyId = id
               /\ submission'.pc # "mint")]_vars

\* C24: computing a compliance classification never changes a record's
\* lifecycle state, freeze timestamp or chain reference: every step of a
\* verification leaves the table and the chain's freezes and anchors as they
\* are.
C24_VerificationChangesNoRecord ==
    [][verify' # verify =>
          (assets' = assets /\ frozenAt' = frozenAt /\ anchors' = anchors)]_vars

\* C24 happens: a verification has returned a classification while the table
\* holds a record that is not settled.
C24_ClassifiedWithRecordPresent ==
    /\ verify.pc = "returned"
    /\ verify.complianceLevel = "full"
    /\ \E id \in DOMAIN assets : assets[id].chittyChainStatus = "minted"

\* C22: the change marker of a record strictly increases with every mutation
\* of the record, a trust score recompute included, and never decreases: a
\* step that changes a row leaves it with a later updatedAt.
C22_EveryMutationAdvancesTheRecord ==
    [][\A id \in DOMAIN assets \cap DOMAIN assets' :
          /\ assets'[id].updatedAt >= assets[id].updatedAt
          /\ assets'[id] # assets[id] =>
                 assets'[id].updatedAt > assets[id].updatedAt]_vars

\* C23: once a record is frozen, minted or settled, no operation changes its
\* metadata.
C23_MetadataFixedOnceFrozen ==
    [][\A id \in DOMAIN assets \cap DOMAIN assets' :
          (assets[id].chittyChainStatus \in {"frozen", "minted", "settled"}
           /\ assets'[id].chittyChainStatus \in {"frozen", "minted", "settled"}) =>
              assets'[id].metadata = assets[id].metadata]_vars

====
